---- MODULE Spec2Model ----
(***************************************************************************)
(* Ride-matching and bidding state machine of RidelinkApp.                 *)
(*                                                                         *)
(* The store is the Firestore database used by src/services/               *)
(* firebaseService.ts: the collections rideRequests, rideRequests/{id}/bids,*)
(* users and ratings.  The clients are passenger sessions (PassengerDash-   *)
(* board and its sub-views) and driver sessions (DriverDashboard); each     *)
(* session acts on the last snapshot its subscriptions delivered.          *)
(*                                                                         *)
(* Documents are records; an optional field is a field that is absent from *)
(* the record's DOMAIN.  A nullable client value is a sequence of length   *)
(* 0 (null) or 1.  Free-text fields that no operation reads (name,         *)
(* avatarUrl, email, location, destination, review, carDetails) are left   *)
(* out of the records.                                                     *)
(*                                                                         *)
(* Specifications:                                                         *)
(*   Spec           the passenger and driver dashboards driving the store  *)
(*   SpecApi        the request and bid service functions, any arguments   *)
(*   SpecDriver     the driver dashboards and the admin's verification     *)
(*   FairSpecDriver SpecDriver with the request list delivered at last     *)
(*   SpecRating     submitRating, any arguments                            *)
(*   SpecPrompt     the rating prompt, lookup by lookup                    *)
(*   SpecBids       the bid list of a passenger                            *)
(*   SpecFare       updateFareConfig, any partial configuration            *)
(*   SpecApp        sign-in, sign-out and the AppProvider of a browser     *)
(*   SpecAccounts   SpecApp's accounts with the profile writes             *)
(*   SpecEstimate   the fare estimate of the request form                  *)
(*   SpecEta        the distance and ETA shown for a bid                   *)
(***************************************************************************)
EXTENDS Integers, Sequences, FiniteSets, TLC

(* ---- bounds ---- *)
MaxRequests == 2      \* ride requests ever created
MaxBids     == 2      \* bids ever created
MaxRatings  == 2      \* ratings ever created through the rating form
MaxApiRatings == 7    \* ratings ever created by direct calls of submitRating
MaxListedBids == 3    \* bids ever created where the bid lists are followed
MaxMessages == 1      \* chat messages ever sent

Passengers == {"p1", "p2"}
Drivers    == {"d1"}
\* browser sessions showing PassengerDashboard; s1 and s2 belong to the same passenger
PSessions  == {"s1", "s2"}
SessionUser(s) == "p1"
Amounts    == {3000, 5000}
Stars      == {5}

ReqIds == 1..MaxRequests
BidIds == 1..MaxBids

VARIABLES
    requests,   \* collection rideRequests: document id -> document data
    nReq,       \* number of rideRequests documents ever added (next auto id)
    bids,       \* all bids sub-collections: bid id -> [path, data]; never deleted
    users,      \* collection users, restricted to the driver profiles
    ratings,    \* collection ratings: rating id -> document data; never deleted
    messages,   \* all messages sub-collections: message id -> [path, data]
    settings,   \* document settings/fareConfig: null (not set) or its data
    view,       \* PassengerDashboard: myActiveRequest, per session
    bidList,    \* ActiveRequestView: bids, the list listenForBids delivered last
    rateView,   \* PassengerDashboard: rideToRate / driverToRate, per session
    rideSnap,   \* getRideToRateForPassenger: the ride snapshot delivered last
    lookups,    \* getRideToRateForPassenger: the rating lookups in flight
    selected,   \* DriverDashboard: selectedRequest (the open bid modal), per driver
    available,  \* DriverDashboard: availableRequests, the list delivered last
    profile,    \* AppContext of a driver session: state.user, the last profile snapshot
    subscribed, \* PassengerDashboard: mounted, its two subscriptions attached
    authUser,   \* Firebase Auth of the browser: auth.currentUser
    signIn,     \* the sign-in of the browser that awaits its second half
    state,      \* AppProvider of the browser: the reducer's AppState
    delivered,  \* AppProvider: what each of its listeners delivered last
    form,       \* RideRequestForm: what its fare effect set last
    etaView,    \* ActiveRequestView: the request's location, the bid row shown
    outcome     \* how the service call that returned last ended (see Result)

vars == <<requests, nReq, bids, users, ratings, view, bidList, rateView,
          rideSnap, lookups, selected, available, profile, subscribed, messages,
          settings, authUser, signIn, state, delivered, form, etaView,
          outcome>>

\* The variables that the ride, bid and rating operations and the views of
\* the rides leave alone.
browserVars == <<authUser, signIn, state, delivered>>
otherVars == <<subscribed, messages, settings, browserVars, form, etaView>>


(* ---- helpers ---- *)

\* A nullable client value: null, or one value.
Null == <<>>
Some(x) == <<x>>

\* Mutant of Merge: setDoc without merge, the given fields are the document.
Replace(docData, fields) == fields

\* Firestore updateDoc / setDoc-with-merge on an existing document: the given
\* fields replace or add to the document's fields, the others stay.
Merge(docData, fields) ==
    [k \in (DOMAIN docData) \cup (DOMAIN fields) |->
        IF k \in DOMAIN fields THEN fields[k] ELSE docData[k]]

\* serverTimestamp(): assigned by the store and increasing with every write.
\* Timestamps are only ever compared within one collection (orderBy), so a
\* timestamp is the rank of the write among the inserts of its collection,
\* given the number of documents inserted there before.
serverTimestamp(insertedBefore) == insertedBefore + 1

\* JavaScript numbers are IEEE-754 doubles.  The rating arithmetic only meets
\* the values 0 and x with 1 <= x < 64, and every double in that range is a
\* multiple of 2^-52: a number x is the three limbs <<l0, l1, l2>> of
\* x * 2^52 in base 2^26, so l2 is the integer part of x and 4.25 is
\* <<0, 2^24, 4>>.  Every operation rounds its exact result to the nearest
\* double, ties to the even mantissa.
Limb == 2^26

Number(n) == <<0, 0, n>>

RECURSIVE Log2(_)
Log2(n) == IF n < 2 THEN 0 ELSE 1 + Log2(n \div 2)

\* The double nearest to x + (extra / n) * 2^-52, where 0 <= extra < n: a
\* double in [2^k, 2^(k+1)) is a multiple of 2^k * 2^-52.
RoundToDouble(x, extra, n) ==
    LET U == 2^Log2(x[3])
        rem == x[1] % U
        low == x[1] - rem
        twice == 2 * (rem * n + extra)
        half == U * n
        up == \/ twice > half
              \/ twice = half /\ (low \div U) % 2 = 1
        l0 == IF up THEN low + U ELSE low
        l1 == x[2] + l0 \div Limb
    IN IF x[3] = 0 THEN x ELSE <<l0 % Limb, l1 % Limb, x[3] + l1 \div Limb>>

\* x * c, x + r and x / n for a double x and small integers c, r, n.
Times(x, c) ==
    LET p0 == x[1] * c
        p1 == x[2] * c + p0 \div Limb
        p2 == x[3] * c + p1 \div Limb
    IN RoundToDouble(<<p0 % Limb, p1 % Limb, p2>>, 0, 1)

Plus(x, r) == RoundToDouble(<<x[1], x[2], x[3] + r>>, 0, 1)

DividedBy(x, n) ==
    LET t1 == (x[3] % n) * Limb + x[2]
        t0 == (t1 % n) * Limb + x[1]
    IN RoundToDouble(<<t0 \div n, t1 \div n, x[3] \div n>>, t0 % n, n)

\* The denormalized passenger written by createRideRequest (role and
\* isVerified as createUserProfile sets them for a passenger).
PassengerUser(p) == [id |-> p, role |-> "PASSENGER", isVerified |-> FALSE]

\* The user object a driver session passes to addBidToRequest: the profile
\* document with its id.
DriverUser(d) == Merge(users[d], [id |-> d])

\* What the service call that returned last left to its caller: resolved
\* ("ok"), or the error it threw or rejected with and the request and bid ids
\* the failed call was given (0 where the call takes none).
Result(result, requestId, bidId) ==
    IF result = "ok"
    THEN [result |-> "ok", req |-> 0, bid |-> 0]
    ELSE [result |-> result, req |-> requestId, bid |-> bidId]

(* ---- service functions (firebaseService.ts) ---- *)

\* updateDriverVerification: updateDoc(userRef, { isVerified }).
updateDriverVerification(uid, isVerified) ==
    /\ IF uid \in DOMAIN users
       THEN /\ users' = [users EXCEPT ![uid] = Merge(@, [isVerified |-> isVerified])]
            /\ outcome' = Result("ok", 0, 0)
       ELSE /\ UNCHANGED users
            /\ outcome' = Result("DocNotFound", 0, 0)
    /\ UNCHANGED <<requests, nReq, bids, ratings, otherVars>>

\* createRideRequest: addDoc of a PENDING request with the passenger snapshot.
createRideRequest(passenger) ==
    /\ nReq < MaxRequests
    /\ nReq' = nReq + 1
    /\ requests' = (nReq + 1 :> [passenger |-> [id |-> passenger.id,
                                                role |-> "PASSENGER",
                                                isVerified |-> passenger.isVerified],
                                 status |-> "PENDING",
                                 timestamp |-> serverTimestamp(nReq)]) @@ requests
    /\ outcome' = Result("ok", nReq + 1, 0)
    /\ UNCHANGED <<bids, users, ratings, otherVars>>

\* Mutant of cancelRideRequest: the bids of the request are deleted with it.
cancelRideRequestWithBids(requestId) ==
    /\ requests' = [r \in (DOMAIN requests) \ {requestId} |-> requests[r]]
    /\ bids' = SelectSeq(bids, LAMBDA b : b.path # requestId)
    /\ outcome' = Result("ok", requestId, 0)
    /\ UNCHANGED <<nReq, users, ratings, otherVars>>

\* cancelRideRequest: deleteDoc of the request document (no error when the
\* document is absent); the bids sub-collection is not touched.
cancelRideRequest(requestId) ==
    /\ requests' = [r \in (DOMAIN requests) \ {requestId} |-> requests[r]]
    /\ outcome' = Result("ok", requestId, 0)
    /\ UNCHANGED <<nReq, bids, users, ratings, otherVars>>

\* addBidToRequest: addDoc into rideRequests/{requestId}/bids with the driver
\* snapshot; the parent document is neither read nor required to exist.
addBidToRequest(requestId, driver, amount) ==
    /\ bids' = Append(bids, [path |-> requestId,
                             data |-> [driver |-> [id |-> driver.id,
                                                   role |-> "DRIVER",
                                                   isVerified |-> driver.isVerified,
                                                   rating |-> driver.rating],
                                       amount |-> amount,
                                       timestamp |-> serverTimestamp(Len(bids))]])
    /\ outcome' = Result("ok", requestId, 0)
    /\ UNCHANGED <<requests, nReq, users, ratings, otherVars>>

\* Mutant of BidExists: the bid is looked up by its id in any request's bids.
BidExistsUnderAnyRequest(requestId, bidId) ==
    bidId \in 1..Len(bids)

\* bidSnap.exists() for doc(db, `rideRequests/${requestId}/bids`, bidId).
BidExists(requestId, bidId) ==
    /\ bidId \in 1..Len(bids)
    /\ bids[bidId].path = requestId

\* Mutant of AcceptedFields: the status and the bid id are written without the
\* snapshot (which a second write would add).
AcceptedFieldsWithoutSnapshot(bidId, bidData) ==
    [status |-> "ACCEPTED", acceptedBidId |-> bidId]

\* The fields acceptBid passes to updateDoc.
AcceptedFields(bidId, bidData) ==
    [status |-> "ACCEPTED", acceptedBidId |-> bidId, acceptedBid |-> bidData]

\* acceptBid: getDoc of the bid; when it does not exist the call throws
\* Error("Bid not found!") without writing, otherwise one updateDoc of the
\* request, which rejects (not-found) when the request document does not exist.
\* A stored bid is never modified or deleted, so what getDoc read is what is
\* stored when updateDoc runs: the await between them admits no other outcome
\* than the two steps taken together.
acceptBid(requestId, bidId) ==
    /\ IF BidExists(requestId, bidId)
       THEN LET bidData == bids[bidId].data IN
            IF requestId \in DOMAIN requests
            THEN /\ requests' = [requests EXCEPT ![requestId] =
                                     Merge(@, AcceptedFields(bidId, bidData))]
                 /\ outcome' = Result("ok", requestId, bidId)
            ELSE /\ UNCHANGED requests
                 /\ outcome' = Result("DocNotFound", requestId, bidId)
       ELSE /\ UNCHANGED requests
            /\ outcome' = Result("BidNotFound", requestId, bidId)
    /\ UNCHANGED <<nReq, bids, users, ratings, otherVars>>

\* completeRide: updateDoc(requestRef, {status: 'COMPLETED'}).
completeRide(requestId) ==
    /\ IF requestId \in DOMAIN requests
       THEN /\ requests' = [requests EXCEPT ![requestId] =
                                Merge(@, [status |-> "COMPLETED"])]
            /\ outcome' = Result("ok", requestId, 0)
       ELSE /\ UNCHANGED requests
            /\ outcome' = Result("DocNotFound", requestId, 0)
    /\ UNCHANGED <<nReq, bids, users, ratings, otherVars>>

\* Mutant of NewRating: the mean of the stored average and the new rating.
NewRatingOfTwo(currentRating, rating) ==
    [average |-> DividedBy(Plus(currentRating.average, rating), 2),
     count |-> currentRating.count + 1]

\* The aggregate submitRating writes back to the driver profile.
NewRating(currentRating, rating) ==
    LET newCount == currentRating.count + 1
        newAverage == DividedBy(Plus(Times(currentRating.average,
                                           currentRating.count), rating), newCount)
    IN [average |-> newAverage, count |-> newCount]

\* Mutant of submitRating: the rating record is added before the profile is
\* read, outside the transaction.
submitRatingRecordFirst(driverId, rideRequestId, passengerId, rating) ==
    /\ ratings' = Append(ratings, [driverId |-> driverId,
                                   rideRequestId |-> rideRequestId,
                                   passengerId |-> passengerId,
                                   rating |-> rating,
                                   timestamp |-> serverTimestamp(Len(ratings))])
    /\ IF driverId \in DOMAIN users
       THEN /\ users' = [users EXCEPT ![driverId] =
                   Merge(@, [rating |-> [average |-> Number(rating), count |-> 1]])]
            /\ outcome' = Result("ok", rideRequestId, 0)
       ELSE /\ UNCHANGED users
            /\ outcome' = Result("DriverNotFound", rideRequestId, 0)
    /\ UNCHANGED <<requests, nReq, bids, otherVars>>

\* Mutant of submitRating: the aggregate is written and the record is not.
submitRatingWithoutRecord(driverId, rideRequestId, passengerId, rating) ==
    /\ IF driverId \in DOMAIN users
       THEN /\ users' = [users EXCEPT ![driverId] =
                   Merge(@, [rating |-> [average |-> Number(rating),
                                         count |-> IF "rating" \in DOMAIN @
                                                   THEN @.rating.count + 1 ELSE 1]])]
            /\ outcome' = Result("ok", rideRequestId, 0)
       ELSE /\ UNCHANGED users
            /\ outcome' = Result("DriverNotFound", rideRequestId, 0)
    /\ UNCHANGED <<requests, nReq, bids, ratings, otherVars>>

\* submitRating: one transaction that reads the driver profile, writes the new
\* aggregate and inserts the rating record; throws when the profile is absent.
submitRating(driverId, rideRequestId, passengerId, rating) ==
    /\ IF driverId \in DOMAIN users
       THEN LET currentData == users[driverId]
                currentRating == IF "rating" \in DOMAIN currentData
                                 THEN currentData.rating
                                 ELSE [average |-> Number(0), count |-> 0]
            IN /\ users' = [users EXCEPT ![driverId] =
                               Merge(@, [rating |-> NewRating(currentRating, rating)])]
               /\ ratings' = Append(ratings, [driverId |-> driverId,
                                              rideRequestId |-> rideRequestId,
                                              passengerId |-> passengerId,
                                              rating |-> rating,
                                              timestamp |-> serverTimestamp(Len(ratings))])
               /\ outcome' = Result("ok", rideRequestId, 0)
       ELSE /\ UNCHANGED <<users, ratings>>
            /\ outcome' = Result("DriverNotFound", rideRequestId, 0)
    /\ UNCHANGED <<requests, nReq, bids, otherVars>>

\* The identities that can authenticate and their e-mail addresses: the
\* configured admin, a driver and a passenger.
ADMIN_EMAIL == "basoeneoruye@gmail.com"
AuthUids == {"admin"} \cup Drivers \cup {"p1"}
Email(uid) == IF uid = "admin" THEN ADMIN_EMAIL ELSE "user@example.com"

\* createUserProfile: getDoc, then setDoc(userRef, userData, { merge: true })
\* with role and isVerified always in userData and the driver fields only for
\* a new driver account.
createUserProfile(uid, role) ==
    LET isUserAdmin == Email(uid) = ADMIN_EMAIL
        actualRole == IF isUserAdmin THEN "ADMIN" ELSE role
        exists == uid \in DOMAIN users
        existingData == IF exists THEN users[uid] ELSE <<>>
        userData == IF actualRole = "DRIVER" /\ ~exists
                    THEN [role |-> actualRole, isVerified |-> isUserAdmin,
                          isAvailable |-> FALSE,
                          rating |-> [average |-> Number(0), count |-> 0]]
                    ELSE [role |-> actualRole, isVerified |-> isUserAdmin]
    IN /\ users' = [u \in DOMAIN users \cup {uid} |->
                       IF u = uid THEN Merge(existingData, userData) ELSE users[u]]
       /\ outcome' = Result("ok", 0, 0)
       /\ UNCHANGED <<requests, nReq, bids, ratings, subscribed, messages,
                      settings>>

\* updateDriverProfile: updateDoc(userRef, { carDetails, avatarUrl,
\* licenseUrl }), of which the model keeps licenseUrl.
updateDriverProfile(uid) ==
    /\ IF uid \in DOMAIN users
       THEN /\ users' = [users EXCEPT ![uid] = Merge(@, [licenseUrl |-> "license.jpg"])]
            /\ outcome' = Result("ok", 0, 0)
       ELSE /\ UNCHANGED users
            /\ outcome' = Result("DocNotFound", 0, 0)
    /\ UNCHANGED <<requests, nReq, bids, ratings, otherVars>>

\* updateDriverAvailability: updateDoc(userRef, { isAvailable }).
updateDriverAvailability(uid, isAvailable) ==
    /\ IF uid \in DOMAIN users
       THEN /\ users' = [users EXCEPT ![uid] = Merge(@, [isAvailable |-> isAvailable])]
            /\ outcome' = Result("ok", 0, 0)
       ELSE /\ UNCHANGED users
            /\ outcome' = Result("DocNotFound", 0, 0)
    /\ UNCHANGED <<requests, nReq, bids, ratings, otherVars>>

\* sendMessage: addDoc into rideRequests/{requestId}/messages.  The path is
\* built from the argument; the request document is not read.
sendMessage(requestId, senderId) ==
    /\ messages' = Append(messages,
                      [path |-> requestId,
                       data |-> [senderId |-> senderId,
                                 timestamp |-> serverTimestamp(Len(messages))]])
    /\ outcome' = Result("ok", 0, 0)
    /\ UNCHANGED <<requests, nReq, bids, users, ratings, subscribed, settings,
                   browserVars>>

\* FareConfig and the partial configs updateFareConfig accepts: any of the
\* fields, each with a number or, as Partial<FareConfig> allows, undefined
\* (a nullable value: Null is undefined).
FareFields == {"baseFare", "ratePerKm", "ratePerMinute"}
FareValues == {20, 100, 500}
PartialFareConfigs ==
    UNION {[F -> {Some(v) : v \in FareValues} \cup {Null}] :
               F \in SUBSET FareFields}

\* updateFareConfig: setDoc(configRef, config, { merge: true }), which creates
\* the document when there is none.  Firestore refuses data that holds
\* undefined (ignoreUndefinedProperties is not set) before it writes anything.
updateFareConfig(config) ==
    /\ IF \E k \in DOMAIN config : config[k] = Null
       THEN /\ outcome' = Result("invalid-argument", 0, 0)
            /\ UNCHANGED settings
       ELSE /\ settings' = Some(Merge(IF settings = Null THEN <<>> ELSE settings[1],
                                      [k \in DOMAIN config |-> config[k][1]]))
            /\ outcome' = Result("ok", 0, 0)
    /\ UNCHANGED <<requests, nReq, bids, users, ratings, subscribed, messages,
                   browserVars>>

(* ---- subscriptions (onSnapshot callbacks) ---- *)

\* The query of getActiveRideRequestForPassenger.
ActiveRequestsOf(passengerId) ==
    {r \in DOMAIN requests : /\ requests[r].passenger.id = passengerId
                             /\ requests[r].status \in {"PENDING", "ACCEPTED"}}

\* { id: doc.id, ...doc.data() } as far as PassengerDashboard reads it.
RequestSnapshot(r) == [id |-> r, status |-> requests[r].status]

\* getActiveRideRequestForPassenger's callback, as PassengerDashboard subscribes
\* it.  The query has limit(1) and no orderBy: docs[0] is the first match in
\* document-id order, and the ids are random, so it is any of the matches.
getActiveRideRequestForPassenger(s) ==
    /\ subscribed[s]
    /\ IF ActiveRequestsOf(SessionUser(s)) = {}
       THEN view' = [view EXCEPT ![s] = Null]
       ELSE \E r \in ActiveRequestsOf(SessionUser(s)) :
                view' = [view EXCEPT ![s] = Some(RequestSnapshot(r))]
    /\ UNCHANGED <<requests, nReq, bids, users, ratings, bidList, rateView,
                   rideSnap, lookups, selected, available, profile, outcome, otherVars>>

\* The ride query of getRideToRateForPassenger: the COMPLETED requests of the
\* passenger, of which orderBy("timestamp", "desc"), limit(1) keeps the latest.
CompletedOf(passengerId) ==
    {r \in DOMAIN requests : /\ requests[r].passenger.id = passengerId
                             /\ requests[r].status = "COMPLETED"}

LatestCompletedOf(passengerId) ==
    CHOOSE r \in CompletedOf(passengerId) :
        \A q \in CompletedOf(passengerId) :
            requests[q].timestamp <= requests[r].timestamp

RatingExistsFor(rideRequestId) ==
    \E i \in 1..Len(ratings) : ratings[i].rideRequestId = rideRequestId

\* What a ride snapshot of getRideToRateForPassenger holds: nothing, or the
\* latest COMPLETED request and rideData.acceptedBid?.driver ?? null (of which
\* the rating form reads the id).
RideSnapshot(passengerId) ==
    IF CompletedOf(passengerId) = {} THEN Null
    ELSE LET r == LatestCompletedOf(passengerId)
         IN Some([ride |-> r,
                  driver |-> IF "acceptedBid" \in DOMAIN requests[r]
                             THEN Some(requests[r].acceptedBid.driver.id)
                             ELSE Null])

\* What the rating lookup started for a ride snapshot passes to the callback
\* when it is answered: (rideData, driver), or (null, null) when a rating of
\* the ride exists.
LookupAnswer(rideData) ==
    IF RatingExistsFor(rideData.ride)
    THEN [ride |-> Null, driver |-> Null]
    ELSE [ride |-> Some(rideData.ride), driver |-> rideData.driver]

\* getRideToRateForPassenger's callback as PassengerDashboard subscribes it
\* (setRideToRate / setDriverToRate), for a ride snapshot whose rating lookup
\* is answered before anything else happens.
getRideToRateForPassenger(s) ==
    /\ subscribed[s]
    /\ IF RideSnapshot(SessionUser(s)) = Null
       THEN rateView' = [rateView EXCEPT ![s] = [ride |-> Null, driver |-> Null]]
       ELSE rateView' = [rateView EXCEPT ![s] =
                            LookupAnswer(RideSnapshot(SessionUser(s))[1])]
    /\ UNCHANGED <<requests, nReq, bids, users, ratings, view, bidList, rideSnap,
                   lookups, selected, available, profile, outcome, otherVars>>

\* The same subscription step by step.  The listener of the ride query fires
\* while it is attached and when the query's result differs from the snapshot
\* delivered last: an empty snapshot calls back (null, null) at once, any
\* other starts a rating lookup (getDocs) whose answer calls back later.
onRideSnapshot(s) ==
    /\ subscribed[s]
    /\ RideSnapshot(SessionUser(s)) # rideSnap[s]
    /\ rideSnap' = [rideSnap EXCEPT ![s] = RideSnapshot(SessionUser(s))]
    /\ IF RideSnapshot(SessionUser(s)) = Null
       THEN /\ rateView' = [rateView EXCEPT ![s] = [ride |-> Null, driver |-> Null]]
            /\ UNCHANGED lookups
       ELSE /\ lookups' = [lookups EXCEPT ![s] =
                               @ \cup {RideSnapshot(SessionUser(s))[1]}]
            /\ UNCHANGED rateView
    /\ UNCHANGED <<requests, nReq, bids, users, ratings, view, bidList,
                   selected, available, profile, outcome, otherVars>>

\* The answer of a rating lookup in flight arrives and the callback is
\* invoked with it (both branches of the then-handler call it, and nothing
\* in it asks whether the listener is still attached): the lookups of one
\* session are answered in any order.  rateView is what the callback was
\* invoked with last, which the dashboard shows while it is mounted.
onRatingLookup(s, rideData) ==
    /\ rideData \in lookups[s]
    /\ lookups' = [lookups EXCEPT ![s] = @ \ {rideData}]
    /\ rateView' = [rateView EXCEPT ![s] = LookupAnswer(rideData)]
    /\ UNCHANGED <<requests, nReq, bids, users, ratings, view, bidList, rideSnap,
                   selected, available, profile, outcome, otherVars>>

\* The cleanup of PassengerDashboard's subscription effect, as it runs when
\* the dashboard unmounts: unsubscribeActive(); unsubscribeRidesToRate().
\* The handle getRideToRateForPassenger returned is the one of onSnapshot: it
\* detaches the listener of the ride query and knows nothing of the lookups.
unsubscribeRidesToRate(s) ==
    /\ subscribed[s]
    /\ subscribed' = [subscribed EXCEPT ![s] = FALSE]
    /\ UNCHANGED <<requests, nReq, bids, users, ratings, view, bidList, rateView,
                   rideSnap, lookups, selected, available, profile, outcome,
                   messages, settings, browserVars, form, etaView>>

(* ---- PassengerDashboard ---- *)

\* Which of its views PassengerDashboard renders for a session.
Screen(s) ==
    IF ~subscribed[s] THEN "unmounted"
    ELSE IF rateView[s].ride # Null /\ rateView[s].driver # Null THEN "rating"
    ELSE IF view[s] # Null /\ view[s][1].status = "ACCEPTED" THEN "accepted"
    ELSE IF view[s] = Null THEN "form"
    ELSE "active"

\* A session's own write reaches its own listeners at once, from the local
\* cache (Firestore latency compensation), before the write's promise resolves:
\* the session that wrote never acts on a view older than its own write.
LocalSnapshot(s, v) == [view EXCEPT ![s] = v]

\* RideRequestForm submit.
handleRequestSubmit(s) ==
    /\ Screen(s) = "form"
    /\ createRideRequest(PassengerUser(SessionUser(s)))
    /\ view' = LocalSnapshot(s, Some([id |-> nReq + 1, status |-> "PENDING"]))
    /\ UNCHANGED <<bidList, rateView, rideSnap, lookups, selected, available,
                   profile>>

\* The bids ActiveRequestView lists for its request (listenForBids).
BidsListed(requestId) == {b \in 1..Len(bids) : bids[b].path = requestId}

\* The lists a snapshot of listenForBids can hold: all bids of the request,
\* orderBy("amount", "asc").  Bids of equal amount come in the order of their
\* document ids, which addDoc draws at random and nothing else reads: any
\* order of theirs is one the ids can have.
BidListings(requestId) ==
    LET n == Cardinality(BidsListed(requestId))
    IN {l \in [1..n -> BidsListed(requestId)] :
           \A i, j \in 1..n :
               i < j => /\ l[i] # l[j]
                        /\ bids[l[i]].data.amount <= bids[l[j]].data.amount}

\* listenForBids' callback as ActiveRequestView subscribes it (setBids), for a
\* snapshot that holds other bids than the list delivered before.
listenForBids(s) ==
    /\ Screen(s) = "active"
    /\ {bidList[s][i] : i \in 1..Len(bidList[s])} # BidsListed(view[s][1].id)
    /\ \E l \in BidListings(view[s][1].id) : bidList' = [bidList EXCEPT ![s] = l]
    /\ UNCHANGED <<requests, nReq, bids, users, ratings, view, rateView,
                   rideSnap, lookups, selected, available, profile, outcome, otherVars>>

\* ActiveRequestView.sortedBids: [...bids].sort((a, b) => a.amount - b.amount).
\* Array.prototype.sort is stable: a bid goes behind the bids of the same
\* amount that precede it in the list.
InsertByAmount(sorted, b) ==
    LET k == Cardinality({i \in 1..Len(sorted) :
                             bids[sorted[i]].data.amount <= bids[b].data.amount})
    IN SubSeq(sorted, 1, k) \o <<b>> \o SubSeq(sorted, k + 1, Len(sorted))

RECURSIVE SortByAmount(_)
SortByAmount(list) ==
    IF list = <<>> THEN <<>>
    ELSE InsertByAmount(SortByAmount(SubSeq(list, 1, Len(list) - 1)), list[Len(list)])

sortedBids(s) == SortByAmount(bidList[s])

\* ActiveRequestView: the Accept button of a listed bid.
handleAcceptBid(s, bidId) ==
    /\ Screen(s) = "active"
    /\ bidId \in BidsListed(view[s][1].id)
    /\ acceptBid(view[s][1].id, bidId)
    /\ view' = IF outcome'.result = "ok"
               THEN LocalSnapshot(s, Some([id |-> view[s][1].id, status |-> "ACCEPTED"]))
               ELSE view
    /\ UNCHANGED <<bidList, rateView, rideSnap, lookups, selected, available,
                   profile>>

\* ActiveRequestView: the Cancel Ride button, confirmed.
handleCancelRide(s) ==
    /\ Screen(s) = "active"
    /\ cancelRideRequest(view[s][1].id)
    /\ view' = LocalSnapshot(s, Null)
    /\ UNCHANGED <<bidList, rateView, rideSnap, lookups, selected, available,
                   profile>>

\* RatingForm submit with a star rating selected; onComplete clears the prompt
\* when submitRating did not throw.
handleSubmit(s, rating) ==
    /\ Screen(s) = "rating"
    /\ rating # 0
    /\ Len(ratings) < MaxRatings
    /\ submitRating(rateView[s].driver[1], rateView[s].ride[1], SessionUser(s), rating)
    /\ rateView' = IF outcome'.result = "ok"
                   THEN [rateView EXCEPT ![s] = [ride |-> Null, driver |-> Null]]
                   ELSE rateView
    /\ UNCHANGED <<view, bidList, rideSnap, lookups, selected, available,
                   profile>>

(* ---- DriverDashboard ---- *)

\* Mutant of AvailableRequests: the requests a driver bid on are left out.
AvailableRequestsWithoutBids ==
    {r \in DOMAIN requests : /\ requests[r].status = "PENDING"
                             /\ BidsListed(r) = {}}

\* The query of listenForAvailableRequests.
AvailableRequests == {r \in DOMAIN requests : requests[r].status = "PENDING"}

\* listenForAvailableRequests' callback as DriverDashboard subscribes it
\* (setAvailableRequests), for a snapshot that differs from the list delivered
\* before.  The dashboard is subscribed while its state.user is verified.
listenForAvailableRequests(d) ==
    /\ profile[d].isVerified
    /\ available[d] # AvailableRequests
    /\ available' = [available EXCEPT ![d] = AvailableRequests]
    /\ UNCHANGED <<requests, nReq, bids, users, ratings, view, bidList, rateView,
                   rideSnap, lookups, selected, profile, outcome, otherVars>>

\* AppContext's profile listener: state.user becomes the profile document with
\* its id.
onProfileSnapshot(d) ==
    /\ profile' = [profile EXCEPT ![d] = DriverUser(d)]
    /\ UNCHANGED <<requests, nReq, bids, users, ratings, view, bidList, rateView,
                   rideSnap, lookups, selected, available, outcome, otherVars>>

\* DriverDashboard shows the request list when state.user is verified and no
\* accepted ride has been delivered (myAcceptedRide is null).  That snapshot
\* may arrive arbitrarily late, so it rules out no order of the store's writes
\* and myAcceptedRide is not kept.
\* The Place Bid button of a listed request: setSelectedRequest(req), for a
\* request that is PENDING in the store when the button is pressed (the list
\* on screen is the one of a snapshot taken at that moment).
setSelectedRequest(d, r) ==
    /\ profile[d].isVerified
    /\ r \in AvailableRequests
    /\ selected[d] = Null
    /\ selected' = [selected EXCEPT ![d] = Some(r)]
    /\ UNCHANGED <<requests, nReq, bids, users, ratings, view, bidList, rateView,
                   rideSnap, lookups, available, profile, outcome, otherVars>>

\* BidModal onClose (the modal is rendered with the request list).
onClose(d) ==
    /\ profile[d].isVerified
    /\ selected[d] # Null
    /\ selected' = [selected EXCEPT ![d] = Null]
    /\ UNCHANGED <<requests, nReq, bids, users, ratings, view, bidList, rateView,
                   rideSnap, lookups, available, profile, outcome, otherVars>>

\* BidModal submit (a positive integer amount) and DriverDashboard.handleBidSubmit.
handleBidSubmit(d, amount) ==
    /\ profile[d].isVerified
    /\ selected[d] # Null
    /\ amount > 0
    /\ Len(bids) < MaxBids
    /\ addBidToRequest(selected[d][1], profile[d], amount)
    /\ selected' = [selected EXCEPT ![d] = Null]
    /\ UNCHANGED <<view, bidList, rateView, rideSnap, lookups, available,
                   profile>>

\* AdminDashboard.handleToggleVerification: the admin's user list shows the
\* driver as unverified or verified (it may be behind the store) and the toggle
\* writes the opposite.
handleToggleVerification(d, shownVerified) ==
    /\ updateDriverVerification(d, ~shownVerified)
    /\ UNCHANGED <<view, bidList, rateView, rideSnap, lookups, selected,
                   available, profile>>

\* completeRide has no caller in the client code: it is invoked for any request id.
callCompleteRide(requestId) ==
    /\ completeRide(requestId)
    /\ UNCHANGED <<view, bidList, rateView, rideSnap, lookups, selected,
                   available, profile>>

(* ---- specification: the clients driving the store ---- *)

(* ---- AppProvider, Login and AdminLogin of one browser ---- *)

\* No client state is involved: the dashboards' variables stay as they start.
ClientVarsUnchanged ==
    UNCHANGED <<view, bidList, rateView, rideSnap, lookups, selected, available,
                profile, form, etaView>>

initialState ==
    [user |-> Null, isLoading |-> TRUE, error |-> Null, fareConfig |-> Null]

\* appReducer; an action is [type, payload], the payload a nullable value.
appReducer(st, action) ==
    CASE action.type = "SET_LOADING" -> [st EXCEPT !.isLoading = action.payload[1]]
      [] action.type = "SET_USER" ->
             [st EXCEPT !.user = action.payload, !.isLoading = FALSE]
      [] action.type = "LOGOUT" -> [initialState EXCEPT !.isLoading = FALSE]
      [] action.type = "SET_VERIFIED" ->
             IF st.user # Null
             THEN [st EXCEPT !.user = Some(Merge(st.user[1], [isVerified |-> TRUE]))]
             ELSE st
      [] action.type = "SET_ERROR" ->
             [st EXCEPT !.error = action.payload, !.isLoading = FALSE]
      [] action.type = "SET_FARE_CONFIG" -> [st EXCEPT !.fareConfig = action.payload]
      [] OTHER -> st

dispatch(action) == state' = appReducer(state, action)

\* The users, fare-config and ride documents stay as they are.
StoreUnchanged ==
    UNCHANGED <<requests, nReq, bids, users, ratings, messages, settings, outcome>>

\* The first half of handleGoogleSignIn, from a button of Login (shown while
\* state.user is null): signInWithPopup resolves for the identity chosen in
\* the popup.
handleLogin(uid, role) ==
    /\ state.user = Null /\ ~state.isLoading
    /\ signIn = Null
    /\ authUser' = Some(uid)
    /\ signIn' = Some([uid |-> uid, role |-> role, link |-> FALSE])
    /\ UNCHANGED <<state, delivered, subscribed>>
    /\ StoreUnchanged
    /\ ClientVarsUnchanged

\* The second half of handleGoogleSignIn: the admin's address is signed out
\* and refused (Login dispatches SET_ERROR), any other gets its profile.
handleGoogleSignIn ==
    /\ signIn # Null /\ ~signIn[1].link
    /\ signIn' = Null
    /\ IF Email(signIn[1].uid) = ADMIN_EMAIL
       THEN /\ authUser' = Null
            /\ dispatch([type |-> "SET_ERROR", payload |-> Some("Login failed")])
            /\ UNCHANGED <<users, outcome, requests, nReq, bids, ratings,
                           subscribed, messages, settings>>
       ELSE /\ createUserProfile(signIn[1].uid, signIn[1].role)
            /\ UNCHANGED <<authUser, state>>
    /\ UNCHANGED delivered
    /\ ClientVarsUnchanged

\* AdminLogin.processSignInLink, first half: the page is opened from a
\* sign-in link and signInWithEmailLink resolves for the link's identity.
\* AdminLogin is rendered on the admin route unless state.user is an admin.
processSignInLink(uid) ==
    /\ ~state.isLoading
    /\ IF state.user = Null THEN TRUE ELSE state.user[1].role # "ADMIN"
    /\ signIn = Null
    /\ authUser' = Some(uid)
    /\ signIn' = Some([uid |-> uid, role |-> "ADMIN", link |-> TRUE])
    /\ UNCHANGED <<state, delivered, subscribed>>
    /\ StoreUnchanged
    /\ ClientVarsUnchanged

\* AdminLogin.processSignInLink, second half: createUserProfile(result.user,
\* UserRole.ADMIN), and after it the authorization check.
authorizeSignInLink ==
    /\ signIn # Null /\ signIn[1].link
    /\ signIn' = Null
    /\ createUserProfile(signIn[1].uid, "ADMIN")
    /\ authUser' = IF Email(signIn[1].uid) # ADMIN_EMAIL THEN Null ELSE authUser
    /\ UNCHANGED <<state, delivered>>
    /\ ClientVarsUnchanged

\* Header: the logout button, handleSignOut.
handleSignOut ==
    /\ state.user # Null
    /\ authUser # Null
    /\ authUser' = Null
    /\ UNCHANGED <<signIn, state, delivered, subscribed>>
    /\ StoreUnchanged
    /\ ClientVarsUnchanged

\* The onAuthStateChanged observer of AppProvider: the profile listener of
\* the user before is detached, and one is attached for the user signed in.
onAuthStateChanged ==
    /\ delivered.auth # Some(authUser)
    /\ delivered' = [delivered EXCEPT !.auth = Some(authUser), !.profile = Null]
    /\ IF authUser = Null
       THEN dispatch([type |-> "SET_USER", payload |-> Null])
       ELSE UNCHANGED state
    /\ UNCHANGED <<authUser, signIn, subscribed>>
    /\ StoreUnchanged
    /\ ClientVarsUnchanged

\* The profile document of the listener's user as a snapshot: null when
\* there is no document.
UserDoc(uid) ==
    IF uid \in DOMAIN users THEN Some(Merge(users[uid], [id |-> uid])) ELSE Null

\* The profile listener of AppProvider (onSnapshot(userDocRef, ...)).
onUserSnapshot ==
    /\ delivered.auth # Null /\ delivered.auth[1] # Null
    /\ LET docSnap == UserDoc(delivered.auth[1][1])
       IN /\ delivered.profile # Some(docSnap)
          /\ delivered' = [delivered EXCEPT !.profile = Some(docSnap)]
          /\ IF docSnap # Null
             THEN dispatch([type |-> "SET_USER", payload |-> docSnap])
             ELSE dispatch([type |-> "LOGOUT", payload |-> Null])
    /\ UNCHANGED <<authUser, signIn, subscribed>>
    /\ StoreUnchanged
    /\ ClientVarsUnchanged

\* listenForFareConfig's callback as AppProvider subscribes it.
listenForFareConfig ==
    /\ delivered.fare # Some(settings)
    /\ delivered' = [delivered EXCEPT !.fare = Some(settings)]
    /\ dispatch([type |-> "SET_FARE_CONFIG", payload |-> settings])
    /\ UNCHANGED <<authUser, signIn, subscribed>>
    /\ StoreUnchanged
    /\ ClientVarsUnchanged

(* ---- RideRequestForm of the browser ---- *)

\* The session of the browser's PassengerDashboard.
BrowserSession == "s1"

\* What getRideEstimate resolves to: null, or the distance and duration the
\* oracle returned.  The two are JSON numbers; the model has them in tenths
\* (of a kilometre, of a minute).
Estimates ==
    {Null} \cup {Some([distance |-> km, duration |-> min]) :
                     km \in {0, 55, 100, 123}, min \in {0, 15, 200}}

\* Mutant of RoundToFifty: rounded down.
FloorToFifty(tenths, exact) == {(tenths \div 500) * 50}

\* Math.round(calculatedFare / 50) * 50 for a fare given in tenths.
\* Math.round rounds a half upwards.  When the inputs were whole numbers the
\* double arithmetic before it is exact; otherwise calculatedFare / 50 is
\* within an ulp of the true quotient, which decides the result only where
\* the true quotient is a half: there it is either neighbour.
RoundToFifty(tenths, exact) ==
    IF tenths % 500 = 250 /\ ~exact
    THEN {(tenths \div 500) * 50, (tenths \div 500) * 50 + 50}
    ELSE {((tenths + 250) \div 500) * 50}

\* calculatedFare, in tenths.
calculatedFare(fareConfig, estimate) ==
    10 * fareConfig.baseFare + estimate.distance * fareConfig.ratePerKm
        + estimate.duration * fareConfig.ratePerMinute

\* RideRequestForm's fare effect once the debounce timer has fired and
\* getRideEstimate has resolved.  The effect runs while the form is shown
\* and fareConfig is loaded.
calculateFare(estimate) ==
    /\ Screen(BrowserSession) = "form"
    /\ state.fareConfig # Null
    /\ IF estimate # Null
       THEN \E fare \in RoundToFifty(calculatedFare(state.fareConfig[1], estimate[1]),
                                     estimate[1].distance % 10 = 0
                                         /\ estimate[1].duration % 10 = 0) :
                form' = [estimatedFare |-> Some(fare), fareError |-> FALSE]
       ELSE form' = [estimatedFare |-> Null, fareError |-> TRUE]
    /\ UNCHANGED <<view, bidList, rateView, rideSnap, lookups, selected, available,
                   profile, subscribed, browserVars, etaView>>
    /\ StoreUnchanged

\* The form's submit button (Broadcast Ride Request), which is disabled
\* while there is no fareConfig.
BroadcastRideRequest ==
    /\ state.fareConfig # Null
    /\ handleRequestSubmit(BrowserSession)

\* The browser has just loaded the page: nobody is signed in and no listener
\* has delivered anything.
InitBrowser ==
    /\ authUser = Null
    /\ signIn = Null
    /\ state = initialState
    /\ delivered = [auth |-> Null, profile |-> Null, fare |-> Null]
    /\ form = [estimatedFare |-> Null, fareError |-> FALSE]
    /\ etaView = [location |-> Null, shown |-> Null]

\* Every dashboard is mounted; no message yet; the fare configuration is
\* not set.
InitOther ==
    /\ subscribed = [s \in PSessions |-> TRUE]
    /\ messages = <<>>
    /\ settings = Null
    /\ InitBrowser

\* The store after the drivers signed up (createUserProfile: rating {0, 0}) and
\* the admin verified them; no request, bid or rating yet; every dashboard
\* mounted and past its first (empty) snapshots, so isLoading is false.
Init ==
    /\ requests = <<>>
    /\ nReq = 0
    /\ bids = <<>>
    /\ users = [d \in Drivers |-> [role |-> "DRIVER", isVerified |-> TRUE,
                                   rating |-> [average |-> Number(0), count |-> 0]]]
    /\ ratings = <<>>
    /\ view = [s \in PSessions |-> Null]
    /\ bidList = [s \in PSessions |-> <<>>]
    /\ rateView = [s \in PSessions |-> [ride |-> Null, driver |-> Null]]
    /\ rideSnap = [s \in PSessions |-> Null]
    /\ lookups = [s \in PSessions |-> {}]
    /\ selected = [d \in Drivers |-> Null]
    /\ available = [d \in Drivers |-> {}]
    /\ profile = [d \in Drivers |-> DriverUser(d)]
    /\ outcome = Result("ok", 0, 0)
    /\ InitOther

Next ==
    \/ \E s \in PSessions : getActiveRideRequestForPassenger(s)
    \/ \E s \in PSessions : getRideToRateForPassenger(s)
    \/ \E s \in PSessions : handleRequestSubmit(s)
    \/ \E s \in PSessions : \E b \in BidIds : handleAcceptBid(s, b)
    \/ \E s \in PSessions : handleCancelRide(s)
    \/ \E s \in PSessions : \E rating \in Stars : handleSubmit(s, rating)
    \/ \E d \in Drivers : \E r \in ReqIds : setSelectedRequest(d, r)
    \/ \E d \in Drivers : onClose(d)
    \/ \E d \in Drivers : \E amount \in Amounts : handleBidSubmit(d, amount)
    \/ \E r \in ReqIds : callCompleteRide(r)
    \/ \E d \in Drivers : onProfileSnapshot(d)

Spec == Init /\ [][Next]_vars

(* ---- specification: the service functions called with any arguments ---- *)

\* The amounts a caller of addBidToRequest may pass: the type is number, and
\* only BidModal keeps to the positive ones.
ApiAmounts == Amounts \cup {0}

ApiCreateRideRequest(p) ==
    createRideRequest(PassengerUser(p)) /\ ClientVarsUnchanged

ApiCancelRideRequest(requestId) ==
    cancelRideRequest(requestId) /\ ClientVarsUnchanged

ApiAddBidToRequest(requestId, d, amount) ==
    /\ Len(bids) < MaxBids
    /\ addBidToRequest(requestId, DriverUser(d), amount)
    /\ ClientVarsUnchanged

ApiAcceptBid(requestId, bidId) ==
    acceptBid(requestId, bidId) /\ ClientVarsUnchanged

ApiCompleteRide(requestId) ==
    completeRide(requestId) /\ ClientVarsUnchanged

\* The senders a caller of sendMessage may name.
Senders == Passengers \cup Drivers

ApiSendMessage(requestId, senderId) ==
    /\ Len(messages) < MaxMessages
    /\ sendMessage(requestId, senderId)
    /\ ClientVarsUnchanged

NextApi ==
    \/ \E p \in Passengers : ApiCreateRideRequest(p)
    \/ \E r \in ReqIds : ApiCancelRideRequest(r)
    \/ \E r \in ReqIds : \E d \in Drivers : \E amount \in ApiAmounts :
           ApiAddBidToRequest(r, d, amount)
    \/ \E r \in ReqIds : \E b \in BidIds : ApiAcceptBid(r, b)
    \/ \E r \in ReqIds : ApiCompleteRide(r)
    \/ \E r \in ReqIds : \E senderId \in Senders : ApiSendMessage(r, senderId)

SpecApi == Init /\ [][NextApi]_vars

(* ---- specification: the driver dashboards and the admin ---- *)

\* The driver sessions and the admin's verification toggle act through their
\* dashboards; the passengers' side is the service functions called with any
\* arguments.
\* The Place Bid button pressed on an entry of the list delivered last.
PlaceBidOnListed(d, r) ==
    r \in available[d] /\ setSelectedRequest(d, r)

NextDriver ==
    \/ \E p \in Passengers : ApiCreateRideRequest(p)
    \/ \E r \in ReqIds : ApiCancelRideRequest(r)
    \/ \E r \in ReqIds : \E b \in BidIds : ApiAcceptBid(r, b)
    \/ \E d \in Drivers : onProfileSnapshot(d)
    \/ \E d \in Drivers : \E r \in ReqIds : PlaceBidOnListed(d, r)
    \/ \E d \in Drivers : onClose(d)
    \/ \E d \in Drivers : \E amount \in Amounts : handleBidSubmit(d, amount)
    \/ \E d \in Drivers : \E shownVerified \in BOOLEAN :
           handleToggleVerification(d, shownVerified)
    \/ \E d \in Drivers : listenForAvailableRequests(d)

SpecDriver == Init /\ [][NextDriver]_vars

\* A listener's snapshot is delivered at last: onSnapshot calls back for every
\* change of the query's result while the listener is attached.
FairSpecDriver ==
    SpecDriver /\ \A d \in Drivers : WF_vars(listenForAvailableRequests(d))

(* ---- specification: submitRating called with any arguments ---- *)

\* The ratings a caller of submitRating may pass, and the user ids: the
\* drivers' and one that has no profile document.
ApiStars == 1..5
ApiUserIds == Drivers \cup {"nobody"}

\* A driver profile has the rating {0, 0} createUserProfile gives a new driver
\* account, or no rating field: createUserProfile adds none when the account
\* existed before it signed in as a driver.
InitRating ==
    /\ requests = <<>>
    /\ nReq = 0
    /\ bids = <<>>
    /\ users \in [Drivers -> {[role |-> "DRIVER", isVerified |-> FALSE,
                                rating |-> [average |-> Number(0), count |-> 0]],
                               [role |-> "DRIVER", isVerified |-> FALSE]}]
    /\ ratings = <<>>
    /\ view = [s \in PSessions |-> Null]
    /\ bidList = [s \in PSessions |-> <<>>]
    /\ rateView = [s \in PSessions |-> [ride |-> Null, driver |-> Null]]
    /\ rideSnap = [s \in PSessions |-> Null]
    /\ lookups = [s \in PSessions |-> {}]
    /\ selected = [d \in Drivers |-> Null]
    /\ available = [d \in Drivers |-> {}]
    /\ profile = [d \in Drivers |-> DriverUser(d)]
    /\ outcome = Result("ok", 0, 0)
    /\ InitOther

ApiSubmitRating(driverId, rideRequestId, passengerId, rating) ==
    /\ Len(ratings) < MaxApiRatings
    /\ submitRating(driverId, rideRequestId, passengerId, rating)
    /\ ClientVarsUnchanged

NextRating ==
    \E driverId \in ApiUserIds : \E rating \in ApiStars :
        ApiSubmitRating(driverId, 1, "p1", rating)

SpecRating == InitRating /\ [][NextRating]_vars

(* ---- specification: the accounts and the AppProvider of a browser ---- *)

\* The store of Init with the fare configuration an admin set.
InitAccounts ==
    /\ requests = <<>>
    /\ nReq = 0
    /\ bids = <<>>
    /\ users = [d \in Drivers |-> [role |-> "DRIVER", isVerified |-> TRUE,
                                   rating |-> [average |-> Number(0), count |-> 0]]]
    /\ ratings = <<>>
    /\ view = [s \in PSessions |-> Null]
    /\ bidList = [s \in PSessions |-> <<>>]
    /\ rateView = [s \in PSessions |-> [ride |-> Null, driver |-> Null]]
    /\ rideSnap = [s \in PSessions |-> Null]
    /\ lookups = [s \in PSessions |-> {}]
    /\ selected = [d \in Drivers |-> Null]
    /\ available = [d \in Drivers |-> {}]
    /\ profile = [d \in Drivers |-> DriverUser(d)]
    /\ outcome = Result("ok", 0, 0)
    /\ subscribed = [s \in PSessions |-> TRUE]
    /\ messages = <<>>
    /\ settings = Some([baseFare |-> 500, ratePerKm |-> 100, ratePerMinute |-> 20])
    /\ InitBrowser

ApiUpdateDriverProfile(uid) ==
    updateDriverProfile(uid) /\ ClientVarsUnchanged

ApiUpdateDriverAvailability(uid, isAvailable) ==
    updateDriverAvailability(uid, isAvailable) /\ ClientVarsUnchanged

\* The browser is used by any of the identities.
NextApp ==
    \/ \E uid \in AuthUids : \E role \in {"PASSENGER", "DRIVER"} :
           handleLogin(uid, role)
    \/ handleGoogleSignIn
    \/ \E uid \in AuthUids : processSignInLink(uid)
    \/ authorizeSignInLink
    \/ handleSignOut
    \/ onAuthStateChanged
    \/ onUserSnapshot
    \/ listenForFareConfig

SpecApp == InitAccounts /\ [][NextApp]_vars

\* The browser is used by the admin and the drivers, whose profiles exist,
\* while the admin's dashboard and the driver functions change the profiles.
NextAccounts ==
    \/ \E uid \in {"admin"} \cup Drivers : \E role \in {"PASSENGER", "DRIVER"} :
           handleLogin(uid, role)
    \/ handleGoogleSignIn
    \/ \E uid \in {"admin"} \cup Drivers : processSignInLink(uid)
    \/ authorizeSignInLink
    \/ handleSignOut
    \/ onAuthStateChanged
    \/ onUserSnapshot
    \/ listenForFareConfig
    \/ \E d \in Drivers : \E shownVerified \in BOOLEAN :
           handleToggleVerification(d, shownVerified)
    \/ \E d \in Drivers : ApiUpdateDriverProfile(d)
    \/ \E d \in Drivers : \E isAvailable \in BOOLEAN :
           ApiUpdateDriverAvailability(d, isAvailable)

SpecAccounts == InitAccounts /\ [][NextAccounts]_vars

(* ---- ActiveRequestView: distance and ETA of a bid ---- *)

\* Radius of the earth in km.
R == 6371

AVERAGE_SPEED_KMH == 30

\* The error, in metres, of the integer arithmetic below against the double
\* arithmetic of the source, for coordinates within 10 degrees of the equator
\* and of Greenwich and points at most 0.2 degrees apart.
MetreTolerance == 3

\* A location string "Lat: <latitude>, Lon: <longitude>" as handleGetLocation
\* writes it with toFixed(4): the coordinates in 1/10000 degree.
Located(latitude, longitude) ==
    [text |-> "Lat: Lon:", latitude |-> latitude, longitude |-> longitude]

\* A location the passenger typed.
Typed == [text |-> "typed"]

\* The coordinates of the model, in 1/10000 degree.
Coordinates ==
    {<<65244, 33792>>, <<64281, 34219>>, <<65245, 33792>>, <<65244, 33837>>,
     <<65469, 33792>>, <<65300, 33900>>, <<64500, 34000>>, <<66000, 33000>>,
     <<65000, 35000>>, <<64000, 34500>>}

RequestLocations == {Typed} \cup {Located(c[1], c[2]) : c \in Coordinates}

\* bid.driverLocation: absent, or the driver's coordinates.
DriverLocations ==
    {Null} \cup {Some([latitude |-> c[1], longitude |-> c[2]]) : c \in Coordinates}

\* parseLocation: the coordinates the regular expression finds, or null.
parseLocation(locationStr) ==
    IF locationStr.text = "Lat: Lon:"
    THEN Some([latitude |-> locationStr.latitude,
               longitude |-> locationStr.longitude])
    ELSE Null

RECURSIVE SqrtBetween(_, _, _)
\* The largest s in lo..hi with s * s <= n.
SqrtBetween(n, lo, hi) ==
    IF lo = hi THEN lo
    ELSE LET mid == (lo + hi + 1) \div 2
         IN IF mid * mid <= n THEN SqrtBetween(n, mid, hi)
            ELSE SqrtBetween(n, lo, mid - 1)

\* Math.sqrt, rounded down.
Sqrt(n) == SqrtBetween(n, 0, 46340)

\* 1 - Math.cos(lat * (Math.PI / 180)), in millionths: the series
\* x^2 / 2 - x^4 / 24 with x in 1/10000 radian.
CosDeficit(lat) ==
    LET x == (lat * 1745) \div 100000
        q == (x * x) \div 100
    IN (x * x) \div 200 - (q * q) \div 24000000

\* getDistanceFromLatLonInKm, in metres.  The points are near enough for
\* sin(dLat / 2), sin(dLon / 2) and atan2 to be their arguments within a
\* millionth: R * c is R * (Math.PI / 180) * sqrt(dLat^2 + cos(lat1) *
\* cos(lat2) * dLon^2).  The root is taken in 1/100000 degree.
getDistanceFromLatLonInKm(lat1, lon1, lat2, lon2) ==
    LET dLat == lat2 - lat1
        dLon == lon2 - lon1
        deficit == CosDeficit(lat1) + CosDeficit(lat2)
                       - (CosDeficit(lat1) * CosDeficit(lat2)) \div 1000000
        lonTerm == dLon * dLon * 100
        a == dLat * dLat * 100 + lonTerm - ((lonTerm \div 10000) * deficit) \div 100
        c == Sqrt(a)
        perDegree == (R * 17453) \div 1000
    IN c + (c * (perDegree - 100000)) \div 100000

\* Math.round(timeInHours * 60) for a distance in metres.
EtaRounded(metres) ==
    (metres * 120 + 1000 * AVERAGE_SPEED_KMH) \div (2000 * AVERAGE_SPEED_KMH)

\* Mutant of calculateEtaInMinutes: no minimum.
calculateEtaWithoutMinimum(metres) == EtaRounded(metres)

\* calculateEtaInMinutes, for a distance in metres.
calculateEtaInMinutes(metres) ==
    IF EtaRounded(metres) < 1 THEN 1 ELSE EtaRounded(metres)

\* distance.toFixed(1), in tenths of a kilometre.
ToFixed1(metres) == (metres + 50) \div 100

\* The distances in metres the source may compute where the model computes
\* metres: a distance of 0 is exact (the same coordinates).
Doubles(metres) ==
    IF metres = 0 THEN {0}
    ELSE {x \in (metres - MetreTolerance)..(metres + MetreTolerance) : x >= 0}

\* ActiveRequestView is mounted for a request with this location.
showRequest(location) ==
    /\ etaView' = [location |-> Some(location), shown |-> Null]
    /\ UNCHANGED <<view, bidList, rateView, rideSnap, lookups, selected, available,
                   profile, subscribed, browserVars, form>>
    /\ StoreUnchanged

\* The row ActiveRequestView renders for a bid (sortedBids.map).
renderBid(driverLocation) ==
    /\ etaView.location # Null
    /\ LET passengerCoords == parseLocation(etaView.location[1])
       IN IF passengerCoords # Null /\ driverLocation # Null
          THEN \E distance \in Doubles(getDistanceFromLatLonInKm(
                                           passengerCoords[1].latitude,
                                           passengerCoords[1].longitude,
                                           driverLocation[1].latitude,
                                           driverLocation[1].longitude)) :
                   etaView' = [etaView EXCEPT !.shown =
                       Some([driverLocation |-> driverLocation,
                             distance |-> Some(ToFixed1(distance)),
                             eta |-> Some(calculateEtaInMinutes(distance))])]
          ELSE etaView' = [etaView EXCEPT !.shown =
                       Some([driverLocation |-> driverLocation,
                             distance |-> Null, eta |-> Null])]
    /\ UNCHANGED <<view, bidList, rateView, rideSnap, lookups, selected, available,
                   profile, subscribed, browserVars, form>>
    /\ StoreUnchanged

NextEta ==
    \/ \E location \in RequestLocations : showRequest(location)
    \/ \E driverLocation \in DriverLocations : renderBid(driverLocation)

SpecEta == Init /\ [][NextEta]_vars

(* ---- specification: the fare estimate of the request form ---- *)

\* The fare configurations the form may have been given.
FareConfigs ==
    {[baseFare |-> 500, ratePerKm |-> 100, ratePerMinute |-> 20],
     [baseFare |-> 525, ratePerKm |-> 100, ratePerMinute |-> 20],
     [baseFare |-> 500, ratePerKm |-> 150, ratePerMinute |-> 20]}

\* The passenger p1 is signed in and the fare-config listener has delivered
\* the configuration, if there is one.
InitEstimate ==
    /\ requests = <<>>
    /\ nReq = 0
    /\ bids = <<>>
    /\ users = [d \in Drivers |-> [role |-> "DRIVER", isVerified |-> TRUE,
                                   rating |-> [average |-> Number(0), count |-> 0]]]
    /\ ratings = <<>>
    /\ view = [s \in PSessions |-> Null]
    /\ bidList = [s \in PSessions |-> <<>>]
    /\ rateView = [s \in PSessions |-> [ride |-> Null, driver |-> Null]]
    /\ rideSnap = [s \in PSessions |-> Null]
    /\ lookups = [s \in PSessions |-> {}]
    /\ selected = [d \in Drivers |-> Null]
    /\ available = [d \in Drivers |-> {}]
    /\ profile = [d \in Drivers |-> DriverUser(d)]
    /\ outcome = Result("ok", 0, 0)
    /\ subscribed = [s \in PSessions |-> TRUE]
    /\ messages = <<>>
    /\ settings \in {Null} \cup {Some(c) : c \in FareConfigs}
    /\ authUser = Some(SessionUser(BrowserSession))
    /\ signIn = Null
    /\ state = [user |-> Some(PassengerUser(SessionUser(BrowserSession))),
                isLoading |-> FALSE, error |-> Null, fareConfig |-> settings]
    /\ delivered = [auth |-> Some(authUser), profile |-> Some(state.user),
                    fare |-> Some(settings)]
    /\ form = [estimatedFare |-> Null, fareError |-> FALSE]
    /\ etaView = [location |-> Null, shown |-> Null]

NextEstimate ==
    \/ \E estimate \in Estimates : calculateFare(estimate)
    \/ BroadcastRideRequest
    \/ handleCancelRide(BrowserSession)

SpecEstimate == InitEstimate /\ [][NextEstimate]_vars

(* ---- specification: the fare configuration ---- *)

\* The fare configuration is not set, or is the one an admin set before.
StoredFareConfig == [baseFare |-> 1000, ratePerKm |-> 150, ratePerMinute |-> 25]

InitFare ==
    /\ requests = <<>>
    /\ nReq = 0
    /\ bids = <<>>
    /\ users = [d \in Drivers |-> [role |-> "DRIVER", isVerified |-> TRUE,
                                   rating |-> [average |-> Number(0), count |-> 0]]]
    /\ ratings = <<>>
    /\ view = [s \in PSessions |-> Null]
    /\ bidList = [s \in PSessions |-> <<>>]
    /\ rateView = [s \in PSessions |-> [ride |-> Null, driver |-> Null]]
    /\ rideSnap = [s \in PSessions |-> Null]
    /\ lookups = [s \in PSessions |-> {}]
    /\ selected = [d \in Drivers |-> Null]
    /\ available = [d \in Drivers |-> {}]
    /\ profile = [d \in Drivers |-> DriverUser(d)]
    /\ outcome = Result("ok", 0, 0)
    /\ subscribed = [s \in PSessions |-> TRUE]
    /\ messages = <<>>
    /\ settings \in {Null, Some(StoredFareConfig)}
    /\ InitBrowser

ApiUpdateFareConfig(config) ==
    updateFareConfig(config) /\ ClientVarsUnchanged

NextFare ==
    \E config \in PartialFareConfigs : ApiUpdateFareConfig(config)

SpecFare == InitFare /\ [][NextFare]_vars

(* ---- specification: the rating prompt, lookup by lookup ---- *)

\* The ride snapshots a lookup can have been started for.
RideSnapshots ==
    {[ride |-> r, driver |-> d] : r \in ReqIds,
                                  d \in {Null} \cup {Some(x) : x \in Drivers}}

\* The passenger dashboards receive the rating prompt step by step and submit
\* the rating form.  The rides go through their life in order: created when
\* the passenger has no active request, bid on and accepted while PENDING,
\* completed while ACCEPTED.
CreateInOrder(p) ==
    ActiveRequestsOf(p) = {} /\ ApiCreateRideRequest(p)

AddBidInOrder(r, d, amount) ==
    r \in AvailableRequests /\ ApiAddBidToRequest(r, d, amount)

AcceptInOrder(r, b) ==
    r \in AvailableRequests /\ b \in BidsListed(r) /\ ApiAcceptBid(r, b)

CompleteInOrder(r) ==
    /\ r \in DOMAIN requests
    /\ requests[r].status = "ACCEPTED"
    /\ ApiCompleteRide(r)

NextPrompt ==
    \/ \E s \in PSessions : CreateInOrder(SessionUser(s))
    \/ \E r \in ReqIds : \E d \in Drivers : \E amount \in Amounts :
           AddBidInOrder(r, d, amount)
    \/ \E r \in ReqIds : \E b \in BidIds : AcceptInOrder(r, b)
    \/ \E r \in ReqIds : CompleteInOrder(r)
    \/ \E s \in PSessions : onRideSnapshot(s)
    \/ \E s \in PSessions : \E rideData \in RideSnapshots :
           onRatingLookup(s, rideData)
    \/ \E s \in PSessions : \E rating \in Stars : handleSubmit(s, rating)
    \/ \E s \in PSessions : unsubscribeRidesToRate(s)

SpecPrompt == Init /\ [][NextPrompt]_vars

(* ---- specification: the bid list of a passenger ---- *)

\* The amounts of the listed bids.
ListAmounts == {3000, 4000, 5000}

AddListedBid(r, d, amount) ==
    /\ Len(bids) < MaxListedBids
    /\ r \in AvailableRequests
    /\ addBidToRequest(r, DriverUser(d), amount)
    /\ ClientVarsUnchanged

\* A passenger creates a request, drivers bid on it and the passenger's
\* dashboards follow the request and its bid list.
NextBids ==
    \/ \E s \in PSessions : CreateInOrder(SessionUser(s))
    \/ \E s \in PSessions : getActiveRideRequestForPassenger(s)
    \/ \E r \in ReqIds : \E d \in Drivers : \E amount \in ListAmounts :
           AddListedBid(r, d, amount)
    \/ \E s \in PSessions : listenForBids(s)

SpecBids == Init /\ [][NextBids]_vars

(* ---- properties ---- *)

Status(r) == requests[r].status

\* C1: every passenger has at most one request with status PENDING or ACCEPTED
\* in the store, also when two sessions of the passenger create requests.
C1_AtMostOneActiveRequest ==
    \A p \in Passengers :
        Cardinality({r \in DOMAIN requests :
                        /\ requests[r].passenger.id = p
                        /\ Status(r) \in {"PENDING", "ACCEPTED"}}) <= 1

\* C2 as stated: every ACCEPTED request has acceptedBidId and acceptedBid set
\* and acceptedBid.id equals acceptedBidId.
C2_AcceptedBidIdMatches ==
    \A r \in DOMAIN requests :
        Status(r) = "ACCEPTED" =>
            /\ "acceptedBidId" \in DOMAIN requests[r]
            /\ "acceptedBid" \in DOMAIN requests[r]
            /\ "id" \in DOMAIN requests[r].acceptedBid
            /\ requests[r].acceptedBid.id = requests[r].acceptedBidId

\* C2 as amended: every ACCEPTED request has acceptedBidId and acceptedBid set,
\* acceptedBidId names a bid stored under that request and acceptedBid is that
\* bid's stored data (which holds no id field).
C2_AcceptedSnapshotIsTheBid ==
    \A r \in DOMAIN requests :
        Status(r) = "ACCEPTED" =>
            /\ "acceptedBidId" \in DOMAIN requests[r]
            /\ "acceptedBid" \in DOMAIN requests[r]
            /\ requests[r].acceptedBidId \in 1..Len(bids)
            /\ bids[requests[r].acceptedBidId].path = r
            /\ requests[r].acceptedBid = bids[requests[r].acceptedBidId].data

\* C2 witness: acceptBid has moved a request to ACCEPTED.
C2_SomeRequestAccepted ==
    \E r \in DOMAIN requests : Status(r) = "ACCEPTED"

\* C3: once a request is ACCEPTED its acceptedBidId and acceptedBid are the
\* winner's and no later step (a second acceptBid in particular) overwrites them.
C3_WinnerNeverOverwritten ==
    [][\A r \in DOMAIN requests :
          (Status(r) = "ACCEPTED" /\ r \in DOMAIN requests') =>
              /\ requests'[r].acceptedBidId = requests[r].acceptedBidId
              /\ requests'[r].acceptedBid = requests[r].acceptedBid]_vars

\* C4: at most one rating record exists for any rideRequestId.
C4_AtMostOneRatingPerRide ==
    \A i, j \in 1..Len(ratings) :
        ratings[i].rideRequestId = ratings[j].rideRequestId => i = j

\* C5: in every step a request that stays in the store keeps its status or
\* moves PENDING -> ACCEPTED or ACCEPTED -> COMPLETED.
C5_StatusMovesForwardOnly ==
    [][\A r \in DOMAIN requests :
          r \in DOMAIN requests' =>
              \/ requests'[r].status = Status(r)
              \/ Status(r) = "PENDING" /\ requests'[r].status = "ACCEPTED"
              \/ Status(r) = "ACCEPTED" /\ requests'[r].status = "COMPLETED"]_vars

\* Whether an acceptBid has accepted the request (it is ACCEPTED, or COMPLETED
\* after that).
WasAccepted(r) ==
    /\ Status(r) \in {"ACCEPTED", "COMPLETED"}
    /\ "acceptedBidId" \in DOMAIN requests[r]

\* C6: acceptBid on a request that is already ACCEPTED or COMPLETED fails with
\* InvalidStateError and leaves the request's status, acceptedBidId and
\* acceptedBid as they were (stated for a call that names another bid than the
\* accepted one, whose write shows in the store).
C6_AcceptOnNonPendingRejected ==
    [][\A s \in PSessions : \A b \in BidIds :
          (/\ handleAcceptBid(s, b)
           /\ view[s][1].id \in DOMAIN requests
           /\ WasAccepted(view[s][1].id)
           /\ b # requests[view[s][1].id].acceptedBidId) =>
              /\ outcome'.result = "InvalidStateError"
              /\ requests' = requests]_vars

\* C7: cancelRideRequest on a request that is already ACCEPTED or COMPLETED
\* fails with InvalidStateError and the request stays in the store: a request
\* that has reached ACCEPTED is never removed.
C7_AcceptedIsNeverRemoved ==
    [][/\ \A r \in DOMAIN requests :
             WasAccepted(r) => r \in DOMAIN requests'
       /\ \A s \in PSessions :
             (/\ handleCancelRide(s)
              /\ view[s][1].id \in DOMAIN requests
              /\ WasAccepted(view[s][1].id)) =>
                 outcome'.result = "InvalidStateError"]_vars

\* C8: completeRide on an ACCEPTED request sets it to COMPLETED; on a PENDING
\* or COMPLETED request it fails with InvalidStateError and changes nothing.
C8_CompleteOnlyFromAccepted ==
    [][\A r \in DOMAIN requests :
          callCompleteRide(r) =>
              IF Status(r) = "ACCEPTED"
              THEN requests'[r].status = "COMPLETED" /\ outcome'.result = "ok"
              ELSE outcome'.result = "InvalidStateError" /\ requests' = requests]_vars

\* C9: createRideRequest for a passenger with a PENDING or ACCEPTED request
\* fails with ConflictError and inserts nothing; otherwise it inserts exactly
\* one PENDING request carrying the passenger's snapshot.
C9_CreateRejectedWhenActive ==
    [][\A s \in PSessions :
          handleRequestSubmit(s) =>
              IF ActiveRequestsOf(SessionUser(s)) # {}
              THEN outcome'.result = "ConflictError" /\ requests' = requests
              ELSE /\ outcome'.result = "ok"
                   /\ \E r \in DOMAIN requests' :
                         /\ r \notin DOMAIN requests
                         /\ DOMAIN requests' = DOMAIN requests \cup {r}
                         /\ requests'[r].status = "PENDING"
                         /\ requests'[r].passenger = PassengerUser(SessionUser(s))
                         /\ \A q \in DOMAIN requests : requests'[q] = requests[q]]_vars

\* C10: acceptBid naming a bid id that is not stored under the given request
\* fails with the bid-not-found error and writes nothing; the bid a request
\* holds as accepted is always one stored under that request.
C10_UnknownBidRejected ==
    [][/\ \A r \in ReqIds : \A b \in BidIds :
             (ApiAcceptBid(r, b) /\ ~(b \in 1..Len(bids) /\ bids[b].path = r)) =>
                 /\ outcome' = [result |-> "BidNotFound", req |-> r, bid |-> b]
                 /\ requests' = requests
       /\ \A r \in DOMAIN requests' :
             "acceptedBidId" \in DOMAIN requests'[r] =>
                 /\ requests'[r].acceptedBidId \in 1..Len(bids')
                 /\ bids'[requests'[r].acceptedBidId].path = r]_vars

\* C10 witness: acceptBid was refused for a PENDING request with a bid id that
\* is stored, but under a different request.
C10_ForeignBidRefused ==
    /\ outcome.result = "BidNotFound"
    /\ outcome.req \in DOMAIN requests
    /\ Status(outcome.req) = "PENDING"
    /\ outcome.bid \in 1..Len(bids)
    /\ bids[outcome.bid].path # outcome.req

\* C11: a bid submitted by a driver whose profile in the store has isVerified
\* false (the admin un-verified the driver while the dashboard was open) fails
\* with PermissionError and stores no bid.
C11_UnverifiedDriverBidRejected ==
    [][\A d \in Drivers : \A amount \in Amounts :
          (handleBidSubmit(d, amount) /\ ~users[d].isVerified) =>
              /\ outcome'.result = "PermissionError"
              /\ bids' = bids]_vars

\* C12: addBidToRequest with amount <= 0 fails with ValidationError and stores
\* no bid, so every stored bid has a strictly positive amount.
C12_NonPositiveAmountRejected ==
    [][/\ \A r \in ReqIds : \A d \in Drivers : \A amount \in ApiAmounts :
             (ApiAddBidToRequest(r, d, amount) /\ amount <= 0) =>
                 /\ outcome'.result = "ValidationError"
                 /\ bids' = bids
       /\ \A b \in 1..Len(bids') : bids'[b].data.amount > 0]_vars

\* C13: a bid is stored only for a request that exists with status PENDING
\* when the bid is written, also when the bid modal was opened while the
\* request was still PENDING.
C13_BidsOnlyOnPending ==
    [][\A b \in 1..Len(bids') :
          b > Len(bids) =>
              /\ bids'[b].path \in DOMAIN requests
              /\ Status(bids'[b].path) = "PENDING"]_vars

\* The rating records of a driver in commit order, the sum of their values,
\* the aggregate stored for the driver (a profile without the rating field
\* counts as {0, 0}) and the aggregate obtained by applying submitRating's
\* formula to the records one after the other.
RatingsOf(d) == SelectSeq(ratings, LAMBDA x : x.driverId = d)

RECURSIVE SumOf(_)
SumOf(recs) == IF recs = <<>> THEN 0 ELSE recs[1].rating + SumOf(Tail(recs))

Aggregate(d) ==
    IF "rating" \in DOMAIN users[d] THEN users[d].rating
    ELSE [average |-> Number(0), count |-> 0]

RECURSIVE RunningMean(_)
RunningMean(recs) ==
    IF recs = <<>> THEN [average |-> Number(0), count |-> 0]
    ELSE LET init == SubSeq(recs, 1, Len(recs) - 1)
             before == RunningMean(init)
         IN [average |-> DividedBy(Plus(Times(before.average, before.count),
                                        recs[Len(recs)].rating), before.count + 1),
             count |-> before.count + 1]

\* C14 as stated: for every driver, rating.count is the number of rating
\* records with that driverId and rating.average times rating.count is the
\* sum of their rating values.
C14_AggregateEqualsRecords ==
    \A d \in DOMAIN users :
        /\ Aggregate(d).count = Len(RatingsOf(d))
        /\ Times(Aggregate(d).average, Aggregate(d).count) = Number(SumOf(RatingsOf(d)))

\* C14 as amended: for every driver, rating.count is the number of rating
\* records with that driverId and rating.average is the running mean of their
\* values in commit order, each step computed in double arithmetic; the
\* aggregate and the records never get out of step.
C14_AggregateFoldsRecords ==
    \A d \in DOMAIN users :
        /\ Aggregate(d).count = Len(RatingsOf(d))
        /\ Aggregate(d) = RunningMean(RatingsOf(d))

\* C14 witness: a driver rated seven times whose stored average times the
\* count is not the sum of the ratings.
C14_DriftedAggregate ==
    \E d \in DOMAIN users :
        /\ Len(RatingsOf(d)) = 7
        /\ Aggregate(d).count = 7
        /\ Times(Aggregate(d).average, 7) # Number(SumOf(RatingsOf(d)))

\* C15: a successful submitRating with rating r on a driver whose aggregate is
\* {a, c} leaves exactly {(a * c + r) / (c + 1), c + 1}, a profile without
\* the rating field counting as {0, 0}; {4.0, 3} and r = 5 leave {4.25, 4}.
C15_NewAggregate ==
    [][\A d \in Drivers : \A r \in ApiStars :
          ApiSubmitRating(d, 1, "p1", r) =>
              /\ users'[d].rating =
                     [average |-> DividedBy(Plus(Times(Aggregate(d).average,
                                                       Aggregate(d).count), r),
                                            Aggregate(d).count + 1),
                      count |-> Aggregate(d).count + 1]
              /\ (Aggregate(d) = [average |-> Number(4), count |-> 3] /\ r = 5) =>
                     users'[d].rating = [average |-> <<0, 2^24, 4>>, count |-> 4]]_vars

\* C15 witness: a driver with three ratings summing to 12 (average 4.0) was
\* rated 5.
C15_RatedFiveAfterFourPointZero ==
    \E d \in Drivers :
        /\ Len(RatingsOf(d)) = 4
        /\ SumOf(SubSeq(RatingsOf(d), 1, 3)) = 12
        /\ RatingsOf(d)[4].rating = 5
        /\ Aggregate(d).count = 4

\* C16: submitRating for a driver whose profile does not exist fails and the
\* transaction leaves nothing behind: no rating record, no profile created or
\* changed.
C16_MissingDriverAborts ==
    [][\A driverId \in ApiUserIds : \A r \in ApiStars :
          (ApiSubmitRating(driverId, 1, "p1", r) /\ driverId \notin DOMAIN users) =>
              /\ outcome'.result = "DriverNotFound"
              /\ ratings' = ratings
              /\ users' = users]_vars

\* C16 witness: a submitRating for a missing profile failed after an earlier
\* rating had been stored.
C16_FailedAfterARating ==
    /\ outcome.result = "DriverNotFound"
    /\ Len(ratings) = 1

\* C17: a rating prompt is delivered only for the passenger's most recently
\* COMPLETED request and only when no rating of that ride exists, and the
\* value delivered last belongs to the latest ride snapshot, whatever the order
\* in which the rating lookups are answered: once a session has received the
\* current snapshot and all its lookups are answered, a prompt it shows is for
\* the latest COMPLETED request.
C17_PromptIsForLatestRide ==
    \A s \in PSessions :
        (/\ lookups[s] = {}
         /\ rideSnap[s] = RideSnapshot(SessionUser(s))
         /\ rateView[s].ride # Null) =>
            /\ CompletedOf(SessionUser(s)) # {}
            /\ rateView[s].ride[1] = LatestCompletedOf(SessionUser(s))

\* C18: every rating record refers to a request whose status is COMPLETED,
\* has the passengerId of that request's passenger and the driverId of the
\* driver of that request's accepted bid, and a rating value in 1..5.
C18_RatingsReferToCompletedRides ==
    \A i \in 1..Len(ratings) :
        /\ ratings[i].rideRequestId \in DOMAIN requests
        /\ Status(ratings[i].rideRequestId) = "COMPLETED"
        /\ ratings[i].passengerId = requests[ratings[i].rideRequestId].passenger.id
        /\ "acceptedBid" \in DOMAIN requests[ratings[i].rideRequestId]
        /\ ratings[i].driverId =
              requests[ratings[i].rideRequestId].acceptedBid.driver.id
        /\ ratings[i].rating \in 1..5

\* Whether a list of bids is in ascending order of amount, bids of equal
\* amount in the order they were inserted.
ByAmountThenTimestamp(l) ==
    \A i, j \in 1..Len(l) :
        i < j => \/ bids[l[i]].data.amount < bids[l[j]].data.amount
                 \/ /\ bids[l[i]].data.amount = bids[l[j]].data.amount
                    /\ bids[l[i]].data.timestamp < bids[l[j]].data.timestamp

\* C19: every bid list delivered by listenForBids, and the list the passenger
\* view renders from it, holds all bids of the request in ascending order of
\* amount, bids of equal amount in insertion order (timestamp ascending).
C19_BidsByAmountThenInsertion ==
    [][\A s \in PSessions :
          listenForBids(s) =>
              /\ {bidList'[s][i] : i \in 1..Len(bidList'[s])} = BidsListed(view[s][1].id)
              /\ Len(bidList'[s]) = Cardinality(BidsListed(view[s][1].id))
              /\ ByAmountThenTimestamp(bidList'[s])
              /\ ByAmountThenTimestamp(SortByAmount(bidList'[s]))]_vars

C21_NoCallbackAfterUnsubscribe ==
    [][\A s \in PSessions : \A rideData \in RideSnapshots :
           onRatingLookup(s, rideData) => subscribed[s]]_vars

\* C22: a message is stored only for a request that exists with status
\* ACCEPTED or COMPLETED when the message is written: none for a PENDING
\* request, a deleted request or a request id that never existed.
C22_MessagesOnlyWhileChatOpen ==
    [][\A m \in 1..Len(messages') :
           m > Len(messages) =>
               /\ messages'[m].path \in DOMAIN requests
               /\ requests[messages'[m].path].status \in {"ACCEPTED", "COMPLETED"}]_vars

\* C23: updateFareConfig with a partial config changes the fields present in
\* the argument, to the argument's values, and leaves every other field of
\* the fare configuration at its previous value; no field that was set is
\* removed.  (A config that holds undefined is refused and changes nothing.)
C23_PartialUpdateMerges ==
    [][\A config \in PartialFareConfigs :
           ApiUpdateFareConfig(config) =>
               LET before == IF settings = Null THEN <<>> ELSE settings[1]
                   after  == IF settings' = Null THEN <<>> ELSE settings'[1]
               IN /\ DOMAIN before \subseteq DOMAIN after
                  /\ \A k \in DOMAIN before \ DOMAIN config : after[k] = before[k]
                  /\ DOMAIN after \subseteq DOMAIN before \cup DOMAIN config
                  /\ outcome'.result = "ok" =>
                         \A k \in DOMAIN config : after[k] = config[k][1]
                  /\ outcome'.result # "ok" => after = before]_vars

\* C23 witness: the base fare was updated to 500 and the rates are still the
\* ones stored before (which no argument holds).
C23_BaseFareUpdatedRatesKept ==
    /\ settings = Some([baseFare |-> 500, ratePerKm |-> 150, ratePerMinute |-> 25])
    /\ outcome.result = "ok"

\* C24: a user profile has role ADMIN only if its identity's e-mail address
\* is the configured ADMIN_EMAIL, whatever sign-in path wrote the profile.
C24_AdminRoleOnlyForAdminEmail ==
    \A uid \in DOMAIN users :
        users[uid].role = "ADMIN" => Email(uid) = ADMIN_EMAIL

\* C25: a driver's isVerified changes only through the admin's
\* updateDriverVerification: signing in again, updateDriverProfile and
\* updateDriverAvailability leave it at its previous value.
C25_VerificationOnlyByAdmin ==
    [][\A uid \in DOMAIN users :
           users'[uid].isVerified # users[uid].isVerified =>
               \E shownVerified \in BOOLEAN :
                   handleToggleVerification(uid, shownVerified)]_vars

\* C30: in the client state, fareConfig is changed only by SET_FARE_CONFIG,
\* which only the fare-config listener dispatches: no other step of the
\* browser (SET_USER, SET_ERROR, LOGOUT) changes it, so a config that was
\* delivered is still there when a passenger has signed in.
C30_FareConfigOnlySetByListener ==
    [][state'.fareConfig # state.fareConfig => listenForFareConfig]_vars

\* C26: the fare estimate is baseFare + distance * ratePerKm + duration *
\* ratePerMinute rounded to the nearest multiple of 50 (a multiple of 50 no
\* further than 25 from it); with the configuration {500, 100, 20}, 10 km and
\* 20 minutes it is 1900.  When the oracle returns null no fare is set, and
\* the request can still be submitted.
C26_FareIsNearestFifty ==
    /\ [][\A estimate \in Estimates :
              calculateFare(estimate) =>
                  IF estimate = Null
                  THEN form'.estimatedFare = Null
                  ELSE LET tenths == calculatedFare(state.fareConfig[1], estimate[1])
                           fare == form'.estimatedFare[1]
                       IN /\ fare % 50 = 0
                          /\ 10 * fare - tenths <= 250
                          /\ tenths - 10 * fare <= 250
                          /\ (/\ state.fareConfig[1] = [baseFare |-> 500,
                                                        ratePerKm |-> 100,
                                                        ratePerMinute |-> 20]
                              /\ estimate[1] = [distance |-> 100, duration |-> 200])
                                 => fare = 1900]_vars
    /\ [](form.fareError /\ Screen(BrowserSession) = "form" /\ nReq < MaxRequests
              => ENABLED BroadcastRideRequest)

\* C26 witness: the fare 1900 is shown for the configuration
\* {500, 100, 20}.
C26_ScenarioFareShown ==
    /\ state.fareConfig = Some([baseFare |-> 500, ratePerKm |-> 100,
                                ratePerMinute |-> 20])
    /\ form.estimatedFare = Some(1900)

\* The distance the model computes for the row shown, in metres.
ShownMetres ==
    getDistanceFromLatLonInKm(etaView.location[1].latitude,
                              etaView.location[1].longitude,
                              etaView.shown[1].driverLocation[1].latitude,
                              etaView.shown[1].driverLocation[1].longitude)

\* The row shown is of a bid with a driver location, for a request whose
\* location parses to coordinates.
RowHasCoordinates ==
    /\ etaView.location # Null
    /\ etaView.shown # Null
    /\ parseLocation(etaView.location[1]) # Null
    /\ etaView.shown[1].driverLocation # Null

\* The row shown is the scenario's: passenger at (6.5244, 3.3792), driver
\* at (6.4281, 3.4219).
ScenarioRow ==
    /\ RowHasCoordinates
    /\ etaView.location[1] = Located(65244, 33792)
    /\ etaView.shown[1].driverLocation = Some([latitude |-> 64281,
                                               longitude |-> 34219])

\* The ETA is round(distance_km / 30 * 60) for the distance in metres, up to
\* the tolerance of the model's distance.
EtaIsRounded(eta, metres) ==
    /\ 500 * eta - metres <= 250 + MetreTolerance
    /\ metres - 500 * eta <= 250 + MetreTolerance

\* C27 (as amended): for a bid with a driver location and a request location
\* that parses, the ETA shown is round(distance_km / 30 * 60) minutes, and 1
\* minute whenever that is below 1, also at distance 0; without coordinates
\* no distance or ETA is shown.  For the passenger at (6.5244, 3.3792) and
\* the driver at (6.4281, 3.4219) the distance shown is 11.7 km and the ETA
\* is 23 minutes.
C27_EtaRoundedAtLeastOne ==
    /\ etaView.location # Null /\ etaView.shown # Null /\ ~RowHasCoordinates
           => etaView.shown[1].eta = Null /\ etaView.shown[1].distance = Null
    /\ RowHasCoordinates =>
           LET eta == etaView.shown[1].eta[1]
           IN /\ eta >= 1
              /\ eta > 1 => EtaIsRounded(eta, ShownMetres)
              /\ eta = 1 => ShownMetres <= 750 + MetreTolerance
    /\ ScenarioRow => /\ etaView.shown[1].distance = Some(117)
                      /\ etaView.shown[1].eta = Some(23)

\* C27 witness: the scenario's row is shown, with 23 minutes.
C27_ScenarioRowShown ==
    /\ ScenarioRow
    /\ etaView.shown[1].eta = Some(23)

\* C27 as the specification states it: the ETA is raised to 1 only when the
\* distance is above 0, and the scenario shows about 12.1 km and 24 minutes.
C27_EtaAsSpecified ==
    /\ RowHasCoordinates =>
           LET eta == etaView.shown[1].eta[1]
           IN IF ShownMetres = 0 THEN eta = 0
              ELSE /\ eta >= 1
                   /\ eta > 1 => EtaIsRounded(eta, ShownMetres)
    /\ ScenarioRow => /\ etaView.shown[1].distance = Some(121)
                      /\ etaView.shown[1].eta = Some(24)

\* C28: the bid ledger is append-only: no step modifies or removes a bid
\* that was stored; acceptBid leaves the losing bids of the request in place
\* and cancelRideRequest leaves the bids of the removed request behind.
C28_BidLedgerAppendOnly ==
    [][/\ Len(bids') >= Len(bids)
       /\ \A b \in 1..Len(bids) : bids'[b] = bids[b]]_vars

\* C28 witness: a request was accepted and a losing bid of it is still
\* stored.
C28_LosingBidKept ==
    \E r \in DOMAIN requests : \E b \in 1..Len(bids) :
        /\ requests[r].status = "ACCEPTED"
        /\ bids[b].path = r
        /\ requests[r].acceptedBidId # b

\* A bid is stored whose request was cancelled.
OrphanedBidKept ==
    \E b \in 1..Len(bids) : bids[b].path \in 1..nReq /\ bids[b].path \notin DOMAIN requests

\* The requests getAcceptedRideForDriver's query matches for a driver:
\* status ACCEPTED and acceptedBid.driver.id the driver's.
AcceptedRidesOfDriver(driverId) ==
    {r \in DOMAIN requests :
        /\ requests[r].status = "ACCEPTED"
        /\ "acceptedBid" \in DOMAIN requests[r]
        /\ requests[r].acceptedBid.driver.id = driverId}

\* C29: a driver is the accepted driver of at most one request with status
\* ACCEPTED, also when the driver has bids on several PENDING requests that
\* are accepted independently.
C29_AtMostOneAcceptedRidePerDriver ==
    \A d \in Drivers : Cardinality(AcceptedRidesOfDriver(d)) <= 1


====
